---- MODULE Spec2Model ----
(***************************************************************************)
(* A model of process_tracks.py: the note extractor (get_instrument_info), *)
(* the notes workflow (do_notes), the time converter (bbt_to_second) and   *)
(* the mapping normalizer (do_mappings).                                   *)
(*                                                                         *)
(* Strings the program parses (paths, bbt, time signatures) are sequences  *)
(* of one-character strings.  JSON objects are functions from keys to      *)
(* values.  Python floats are modelled as exact rationals <<n, d>> in      *)
(* lowest terms with d > 0; note times are integers in a fixed time unit.  *)
(* A Python exception is a result record with ok = FALSE and the name of   *)
(* the exception.                                                          *)
(***************************************************************************)
EXTENDS Integers, Sequences, FiniteSets, TLC

VARIABLES
    sep,          \* the platform's path separator, as glob joins directory and file
    scores,       \* <in_dir>/scores: file name -> decoded MIDI content
    tracks_file,  \* <in_dir>/tracks.json: [exists, json]
    args,         \* the parsed command line: [do_notes, do_mappings]
    pc,           \* where the running process is
    out_json,     \* do_notes: the in-memory document
    todo,         \* do_notes: the globbed paths not yet visited
    tracks_json,  \* do_mappings: the in-memory document
    midx,         \* do_mappings: index of the next mapping of the loop
    error,        \* the exception that aborted the process, "" if none
    runs,         \* number of invocations started
    file0,        \* history: tracks_file when the current workflow started
    writes,       \* history: writes of tracks.json by the current workflow
    last,         \* history: the workflow that acted last and how it ended
    conv_pc, conv_in, conv_out,   \* a call of bbt_to_second
    ext_pc, ext_in, ext_out       \* a call of get_instrument_info

vars == <<sep, scores, tracks_file, args, pc, out_json, todo, tracks_json, midx,
          error, runs, file0, writes, last,
          conv_pc, conv_in, conv_out, ext_pc, ext_in, ext_out>>

main_vars == <<sep, scores, tracks_file, args, pc, out_json, todo, tracks_json,
               midx, error, runs, file0, writes, last>>
conv_vars == <<conv_pc, conv_in, conv_out>>
ext_vars == <<ext_pc, ext_in, ext_out>>

-----------------------------------------------------------------------------
(* Results of a call: a value, or the exception raised.                    *)

Ok(v) == [ok |-> TRUE, err |-> "", val |-> v]
Err(e) == [ok |-> FALSE, err |-> e, val |-> <<>>]

(* dict helpers *)
EmptyDict == [k \in {} |-> 0]
Has(d, k) == k \in DOMAIN d
Put(d, k, v) == [x \in (DOMAIN d) \cup {k} |-> IF x = k THEN v ELSE d[x]]

-----------------------------------------------------------------------------
(* Exact rationals standing for the floats of the conversion.              *)

Abs(n) == IF n < 0 THEN -n ELSE n

RECURSIVE GCD(_, _)
GCD(a, b) == IF b = 0 THEN a ELSE GCD(b, a % b)

Rat(n, d) ==
    LET g == GCD(Abs(n), Abs(d))
        s == IF d < 0 THEN -1 ELSE 1
    IN  <<(s * n) \div g, (s * d) \div g>>

RatInt(n) == <<n, 1>>
RatAdd(a, b) == Rat(a[1] * b[2] + b[1] * a[2], a[2] * b[2])
RatSub(a, b) == Rat(a[1] * b[2] - b[1] * a[2], a[2] * b[2])
RatMul(a, b) == Rat(a[1] * b[1], a[2] * b[2])
RatDiv(a, b) == Rat(a[1] * b[2], a[2] * b[1])
RatZero == <<0, 1>>

-----------------------------------------------------------------------------
(* str.split, str.replace and float() on sequences of characters.          *)

Digits == {"0", "1", "2", "3", "4", "5", "6", "7", "8", "9"}

DigitVal(c) ==
    CASE c = "0" -> 0 [] c = "1" -> 1 [] c = "2" -> 2 [] c = "3" -> 3
      [] c = "4" -> 4 [] c = "5" -> 5 [] c = "6" -> 6 [] c = "7" -> 7
      [] c = "8" -> 8 [] c = "9" -> 9

RECURSIVE Split(_, _)
Split(s, c) ==
    IF \A i \in 1..Len(s) : s[i] # c
    THEN <<s>>
    ELSE LET i == CHOOSE k \in 1..Len(s) :
                      s[k] = c /\ \A j \in 1..(k - 1) : s[j] # c
         IN  <<SubSeq(s, 1, i - 1)>> \o Split(SubSeq(s, i + 1, Len(s)), c)

RECURSIVE Remove(_, _)
Remove(s, pat) ==
    IF Len(s) < Len(pat) THEN s
    ELSE IF SubSeq(s, 1, Len(pat)) = pat
         THEN Remove(SubSeq(s, Len(pat) + 1, Len(s)), pat)
         ELSE <<s[1]>> \o Remove(Tail(s), pat)

RECURSIVE DecVal(_)
DecVal(s) ==
    IF s = <<>> THEN 0 ELSE 10 * DecVal(SubSeq(s, 1, Len(s) - 1)) + DigitVal(s[Len(s)])

(* float(s) for s over digits, "-" and letters: an optionally signed run   *)
(* of digits is its value, anything else raises ValueError.                *)
ParseFloat(s) ==
    LET neg == s # <<>> /\ s[1] = "-"
        body == IF neg THEN Tail(s) ELSE s
    IN  IF body # <<>> /\ \A i \in 1..Len(body) : body[i] \in Digits
        THEN Ok(RatInt(IF neg THEN -DecVal(body) ELSE DecVal(body)))
        ELSE Err("ValueError")

(* float(parts[i]): IndexError when the list is too short *)
FloatAt(parts, i) ==
    IF i > Len(parts) THEN Err("IndexError") ELSE ParseFloat(parts[i])

-----------------------------------------------------------------------------
(* bbt_to_second                                                           *)

past_beats(bar, beat, tick, numerator, ppq) ==
    RatAdd(RatAdd(RatMul(RatSub(bar, RatInt(1)), numerator),
                  RatSub(beat, RatInt(1))),
           RatDiv(tick, RatInt(ppq)))

bbt_to_second_swapped(bpm, ppq, bbt, time_signature) ==
    LET parts == Split(bbt, ":")
        bar == FloatAt(parts, 1)
        beat == FloatAt(parts, 2)
        tick == FloatAt(parts, 3)
        ts == Split(time_signature, ":")
        numerator == FloatAt(ts, 1)
        denominator == FloatAt(ts, 2)
    IN  IF ~bar.ok THEN bar
        ELSE IF ~beat.ok THEN beat
        ELSE IF ~tick.ok THEN tick
        ELSE IF ~numerator.ok THEN numerator
        ELSE IF ~denominator.ok THEN denominator
        ELSE IF ppq = 0 THEN Err("ZeroDivisionError")
        ELSE IF bpm = 0 THEN Err("ZeroDivisionError")
        ELSE Ok(RatMul(past_beats(bar.val, beat.val, tick.val, denominator.val, ppq),
                       RatDiv(RatInt(60), RatInt(bpm))))

bbt_to_second(bpm, ppq, bbt, time_signature) ==
    LET parts == Split(bbt, ":")
        bar == FloatAt(parts, 1)
        beat == FloatAt(parts, 2)
        tick == FloatAt(parts, 3)
        ts == Split(time_signature, ":")
        numerator == FloatAt(ts, 1)
        denominator == FloatAt(ts, 2)
    IN  IF ~bar.ok THEN bar
        ELSE IF ~beat.ok THEN beat
        ELSE IF ~tick.ok THEN tick
        ELSE IF ~numerator.ok THEN numerator
        ELSE IF ~denominator.ok THEN denominator
        ELSE IF ppq = 0 THEN Err("ZeroDivisionError")
        ELSE IF bpm = 0 THEN Err("ZeroDivisionError")
        ELSE Ok(RatMul(past_beats(bar.val, beat.val, tick.val, numerator.val, ppq),
                       RatDiv(RatInt(60), RatInt(bpm))))

-----------------------------------------------------------------------------
(* get_instrument_info, applied to the decoded content of the file: a      *)
(* sequence of instruments [name, notes], a note being [start, end].       *)

CountMessage == "Number of instruments does not equal to 1"
NotesMessage == "Number of notes is less than or equivalent to 0"

notes_info_of(notes, offset) ==
    [i \in 1..Len(notes) |->
        [index |-> i - 1,
         start |-> notes[i].start - offset,
         duration |-> notes[i].end - notes[i].start]]

MinStart(notes) ==
    CHOOSE m \in {notes[i].start : i \in 1..Len(notes)} :
        \A i \in 1..Len(notes) : m <= notes[i].start

get_instrument_info_earliest(midi) ==
    IF Len(midi) # 1 THEN Err(CountMessage)
    ELSE IF Len(midi[1].notes) <= 0 THEN Err(NotesMessage)
    ELSE Ok([name |-> midi[1].name,
             notes |-> notes_info_of(midi[1].notes, MinStart(midi[1].notes))])

get_instrument_info_lax(midi) ==
    IF Len(midi) < 1 THEN Err(CountMessage)
    ELSE IF Len(midi[1].notes) <= 0 THEN Err(NotesMessage)
    ELSE Ok([name |-> midi[1].name,
             notes |-> notes_info_of(midi[1].notes, midi[1].notes[1].start)])

get_instrument_info(midi) ==
    IF Len(midi) # 1 THEN Err(CountMessage)
    ELSE IF Len(midi[1].notes) <= 0 THEN Err(NotesMessage)
    ELSE Ok([name |-> midi[1].name,
             notes |-> notes_info_of(midi[1].notes, midi[1].notes[1].start)])

-----------------------------------------------------------------------------
(* do_notes                                                                *)

InDir == <<"d">>
ScoresDir == <<"/", "s", "c", "o", "r", "e", "s">>
DotMid == <<".", "m", "i", "d">>

(* a path as glob.glob(f"{in_dir}/scores/*.mid") returns it *)
GlobPath(s, file) == InDir \o ScoresDir \o <<s>> \o file

instrument_name(path) ==
    Remove(Split(path, "\\")[Len(Split(path, "\\"))], DotMid)

read_or_create_fresh(file) == [instruments |-> EmptyDict]

(* lines 64-69: the document read, or a new one *)
read_or_create(file) ==
    IF file.exists THEN file.json ELSE [instruments |-> EmptyDict]

-----------------------------------------------------------------------------
(* do_mappings                                                             *)

DefaultBBT == <<"1", ":", "0", "1", ":", "0", "0">>

Get(d, k, default) == IF Has(d, k) THEN d[k] ELSE default

(* lines 144-148 from loop i on: the loops with start set, or the first    *)
(* exception                                                               *)
RECURSIVE set_starts(_, _, _, _, _)
set_starts(bpm, ppq, time_signature, loops, i) ==
    IF i > Len(loops) THEN Ok(loops)
    ELSE IF ~Has(loops[i], "start_bbt") THEN Err("KeyError")
    ELSE LET s == bbt_to_second(bpm, ppq, loops[i].start_bbt, time_signature)
         IN  IF ~s.ok THEN s
             ELSE set_starts(bpm, ppq, time_signature,
                             [loops EXCEPT ![i] = Put(loops[i], "start", s.val)], i + 1)

Truthy(d) == DOMAIN d # {}

normalize_mapping_keep(bpm, ppq, time_signature, mapping) ==
    LET loops_data == Get(mapping, "loops_data", EmptyDict)
        first == bbt_to_second(bpm, ppq, Get(loops_data, "between_first_bbt", DefaultBBT),
                               time_signature)
        second == bbt_to_second(bpm, ppq, Get(loops_data, "between_second_bbt", DefaultBBT),
                                time_signature)
    IN  IF ~Truthy(loops_data) THEN Ok(mapping)
        ELSE IF ~first.ok THEN first
        ELSE IF ~second.ok THEN second
        ELSE IF ~Has(loops_data, "loops") THEN Err("KeyError")
        ELSE LET loops == set_starts(bpm, ppq, time_signature, loops_data.loops, 1)
             IN  IF ~loops.ok THEN loops
                 ELSE Ok(Put(mapping, "loops_data",
                             Put(Put(loops_data, "between",
                                     Get(loops_data, "between", RatSub(second.val, first.val))),
                                 "loops", loops.val)))

normalize_mapping_defaults(bpm, ppq, time_signature, mapping) ==
    LET loops_data == Get(mapping, "loops_data", EmptyDict)
        first == bbt_to_second(bpm, ppq, Get(loops_data, "between_first_bbt", DefaultBBT),
                               time_signature)
        second == bbt_to_second(bpm, ppq, Get(loops_data, "between_second_bbt", DefaultBBT),
                                time_signature)
    IN  IF ~Truthy(loops_data) THEN Ok(mapping)
        ELSE IF ~first.ok THEN first
        ELSE IF ~second.ok THEN second
        ELSE IF ~Has(loops_data, "loops") THEN Err("KeyError")
        ELSE LET loops == set_starts(bpm, ppq, time_signature, loops_data.loops, 1)
             IN  IF ~loops.ok THEN loops
                 ELSE Ok(Put(mapping, "loops_data",
                             Put(Put(Put(loops_data, "between_first_bbt",
                                         Get(loops_data, "between_first_bbt", DefaultBBT)),
                                     "between", RatSub(second.val, first.val)),
                                 "loops", loops.val)))

(* lines 134-148 for one mapping: the mapping as the loop body leaves it,  *)
(* or the exception it raises                                              *)
normalize_mapping(bpm, ppq, time_signature, mapping) ==
    LET loops_data == Get(mapping, "loops_data", EmptyDict)
        first == bbt_to_second(bpm, ppq, Get(loops_data, "between_first_bbt", DefaultBBT),
                               time_signature)
        second == bbt_to_second(bpm, ppq, Get(loops_data, "between_second_bbt", DefaultBBT),
                                time_signature)
    IN  IF ~Truthy(loops_data) THEN Ok(mapping)
        ELSE IF ~first.ok THEN first
        ELSE IF ~second.ok THEN second
        ELSE IF ~Has(loops_data, "loops") THEN Err("KeyError")
        ELSE LET loops == set_starts(bpm, ppq, time_signature, loops_data.loops, 1)
             IN  IF ~loops.ok THEN loops
                 ELSE Ok(Put(mapping, "loops_data",
                             Put(Put(loops_data, "between", RatSub(second.val, first.val)),
                                 "loops", loops.val)))

TracksDataKeys == {"bpm", "ppq", "time_signature", "mappings"}

-----------------------------------------------------------------------------
(* Inputs of the two pure functions.                                       *)

MaxBar == 2
MaxBeat == 3
MaxNotes == 2
MaxTime == 2
MaxInstruments == 2

DigitChar(n) ==
    CASE n = 0 -> "0" [] n = 1 -> "1" [] n = 2 -> "2" [] n = 3 -> "3"
      [] n = 4 -> "4" [] n = 5 -> "5" [] n = 6 -> "6" [] n = 7 -> "7"
      [] n = 8 -> "8" [] n = 9 -> "9"

Pad2(n) == <<DigitChar(n \div 10), DigitChar(n % 10)>>
Plain(n) == IF n < 10 THEN <<DigitChar(n)>> ELSE Pad2(n)

(* the sequencer's display of a position, such as 1:01:00 *)
FormatBBT(bar, beat, tick) == Plain(bar) \o <<":">> \o Pad2(beat) \o <<":">> \o Pad2(tick)
FormatTS(n, d) == Plain(n) \o <<":">> \o Plain(d)

BpmValues == {-120, 0, 60, 90, 120}
PpqValues == {-96, 0, 24, 96}
TickValues == {0, 12, 48}
Numerators == {3, 4}
Denominators == {4, 8}

ConvInputs ==
    [bpm : BpmValues, ppq : PpqValues, bar : 1..MaxBar, beat : 1..MaxBeat,
     tick : TickValues, num : Numerators, den : Denominators]

ConvBBT(in) == FormatBBT(in.bar, in.beat, in.tick)
ConvTS(in) == FormatTS(in.num, in.den)

RECURSIVE SeqsUpTo(_, _)
SeqsUpTo(S, n) ==
    IF n = 0 THEN {<<>>}
    ELSE LET shorter == SeqsUpTo(S, n - 1)
         IN  shorter \cup {Append(s, x) : s \in shorter, x \in S}

NoteValues == [start : 0..MaxTime, end : 0..MaxTime]
NoteSeqs == SeqsUpTo(NoteValues, MaxNotes)
OtherInstruments ==
    {[name |-> "Bass", notes |-> <<>>],
     [name |-> "Drums", notes |-> <<[start |-> 1, end |-> 2]>>]}

MidiInputs ==
    {<<>>} \cup
    {<<[name |-> "Piano", notes |-> ns]>> \o more :
        ns \in NoteSeqs, more \in SeqsUpTo(OtherInstruments, MaxInstruments - 1)}

-----------------------------------------------------------------------------
(* The states of the workflows while a pure function is exercised.         *)

NoFile == [exists |-> FALSE, json |-> EmptyDict]

MainIdle ==
    /\ sep = "/"
    /\ scores = EmptyDict
    /\ tracks_file = NoFile
    /\ args = [do_notes |-> FALSE, do_mappings |-> FALSE]
    /\ pc = "done"
    /\ out_json = EmptyDict
    /\ todo = {}
    /\ tracks_json = EmptyDict
    /\ midx = 1
    /\ error = ""
    /\ runs = 0
    /\ file0 = NoFile
    /\ writes = 0
    /\ last = [workflow |-> "", ended |-> "", passes |-> 0]

ConvIdle ==
    /\ conv_pc = "idle"
    /\ conv_in = [bpm |-> 120, ppq |-> 96, bar |-> 1, beat |-> 1, tick |-> 0,
                  num |-> 4, den |-> 4]
    /\ conv_out = Err("")

ExtIdle ==
    /\ ext_pc = "idle"
    /\ ext_in = <<>>
    /\ ext_out = Err("")

-----------------------------------------------------------------------------
(* SpecConv: calls of bbt_to_second.                                       *)

ConvInit ==
    /\ MainIdle /\ ExtIdle
    /\ conv_pc = "call"
    /\ conv_in \in ConvInputs
    /\ conv_out = Err("")

ConvCall ==
    /\ conv_pc = "call"
    /\ conv_out' = bbt_to_second(conv_in.bpm, conv_in.ppq, ConvBBT(conv_in), ConvTS(conv_in))
    /\ conv_pc' = "returned"
    /\ UNCHANGED <<conv_in, main_vars, ext_vars>>

ConvNext == ConvCall

SpecConv == ConvInit /\ [][ConvNext]_vars

(* SpecExtract: calls of get_instrument_info.                              *)

ExtInit ==
    /\ MainIdle /\ ConvIdle
    /\ ext_pc = "call"
    /\ ext_in \in MidiInputs
    /\ ext_out = Err("")

ExtCall ==
    /\ ext_pc = "call"
    /\ ext_out' = get_instrument_info(ext_in)
    /\ ext_pc' = "returned"
    /\ UNCHANGED <<ext_in, main_vars, conv_vars>>

ExtNext == ExtCall

SpecExtract == ExtInit /\ [][ExtNext]_vars

-----------------------------------------------------------------------------
(* Spec: invocations of the program on a project directory.                *)

MaxFiles == 2
MaxMappings == 2
MaxRuns == 2

FileA == <<"A">> \o DotMid
FileB == <<"B">> \o DotMid
FileAA == <<"A">> \o DotMid \o DotMid
FileNames == {FileA, FileB, FileAA}

GoodMidi == <<[name |-> "Piano",
               notes |-> <<[start |-> 2, end |-> 3], [start |-> 1, end |-> 3]>>]>>
BadMidi == <<[name |-> "Piano", notes |-> <<>>]>>
ScoreMidis == {GoodMidi, BadMidi}

ScoreDirs ==
    UNION {[fs -> ScoreMidis] : fs \in {x \in SUBSET FileNames : Cardinality(x) <= MaxFiles}}

OldInfo == [name |-> "Old", notes |-> <<[index |-> 0, start |-> 0, duration |-> 1]>>]
NameA == <<"A">>
NameC == <<"C">>
PosixNameA == InDir \o ScoresDir \o <<"/", "A">>
OldInstruments == [n \in {NameA, NameC, PosixNameA} |-> OldInfo]

BBT(bar, beat, tick) == FormatBBT(bar, beat, tick)

LoopPlain == [start_bbt |-> BBT(2, 1, 0)]
LoopStale == [start_bbt |-> BBT(1, 2, 48), start |-> <<7, 1>>, id |-> "intro"]
LoopNoBBT == [id |-> "broken"]

MappingSamples ==
    {[name |-> "plain"],
     [name |-> "empty", loops_data |-> EmptyDict],
     [name |-> "defaults", loops_data |-> [loops |-> <<LoopPlain, LoopStale>>]],
     [name |-> "between",
      loops_data |-> [between_first_bbt |-> BBT(1, 3, 0),
                      between_second_bbt |-> BBT(1, 1, 48),
                      between |-> <<9, 1>>,
                      loops |-> <<LoopStale>>]],
     [name |-> "broken", loops_data |-> [loops |-> <<LoopPlain, LoopNoBBT>>]]}

TimeSignature == <<"4", ":", "4">>

TracksDatas ==
    {[bpm |-> 120, ppq |-> 96, time_signature |-> TimeSignature, mappings |-> ms] :
        ms \in SeqsUpTo(MappingSamples, MaxMappings)}
    \cup {[ppq |-> 96, time_signature |-> TimeSignature, mappings |-> <<>>]}
    \cup {[bpm |-> 120, ppq |-> 0, time_signature |-> TimeSignature,
           mappings |-> <<[name |-> "defaults", loops_data |-> [loops |-> <<LoopPlain>>]]>>]}

Documents ==
    {EmptyDict, [instruments |-> EmptyDict], [instruments |-> OldInstruments]}
    \cup {[tracks_data |-> td] : td \in TracksDatas}
    \cup {[instruments |-> OldInstruments, tracks_data |-> td] : td \in TracksDatas}

Files == {NoFile} \cup {[exists |-> TRUE, json |-> d] : d \in Documents}

ArgSets ==
    {a \in [do_notes : BOOLEAN, do_mappings : BOOLEAN] : a.do_notes \/ a.do_mappings}

Init ==
    /\ ConvIdle /\ ExtIdle
    /\ sep \in {"/", "\\"}
    /\ scores \in ScoreDirs
    /\ tracks_file \in Files
    /\ args \in ArgSets
    /\ pc = "main_notes"
    /\ out_json = EmptyDict
    /\ todo = {}
    /\ tracks_json = EmptyDict
    /\ midx = 1
    /\ error = ""
    /\ runs = 1
    /\ file0 = tracks_file
    /\ writes = 0
    /\ last = [workflow |-> "", ended |-> "", passes |-> 0]

Abort(e) ==
    /\ pc' = "failed"
    /\ error' = e
    /\ last' = [last EXCEPT !.ended = "failed"]

(* line 162, flag not given *)
SkipNotes ==
    /\ pc = "main_notes" /\ ~args.do_notes
    /\ pc' = "main_mappings"
    /\ UNCHANGED <<sep, scores, tracks_file, args, out_json, todo, tracks_json, midx,
                   error, runs, file0, writes, last, conv_vars, ext_vars>>

(* lines 63-75: the document is read or created, the scores are globbed *)
DoNotesBegin ==
    /\ pc = "main_notes" /\ args.do_notes
    /\ file0' = tracks_file
    /\ writes' = 0
    /\ out_json' = read_or_create(tracks_file)
    /\ IF Has(out_json', "instruments")
       THEN /\ pc' = "notes_loop"
            /\ todo' = DOMAIN scores
            /\ last' = [last EXCEPT !.workflow = "do_notes", !.ended = "running"]
            /\ UNCHANGED error
       ELSE /\ pc' = "failed"
            /\ error' = "KeyError"
            /\ last' = [last EXCEPT !.workflow = "do_notes", !.ended = "failed"]
            /\ UNCHANGED todo
    /\ UNCHANGED <<sep, scores, tracks_file, args, tracks_json, midx, runs,
                   conv_vars, ext_vars>>

DoNotesFile_incremental ==
    /\ pc = "notes_loop" /\ todo # {}
    /\ \E file \in todo :
          LET info == get_instrument_info(scores[file])
              name == instrument_name(GlobPath(sep, file))
          IN  IF info.ok
              THEN /\ out_json' = [out_json EXCEPT
                                      !.instruments = Put(@, name, info.val)]
                   /\ tracks_file' = [exists |-> TRUE, json |-> out_json']
                   /\ todo' = todo \ {file}
                   /\ UNCHANGED <<pc, error, last>>
              ELSE /\ Abort(info.err)
                   /\ UNCHANGED <<out_json, todo, tracks_file>>
    /\ UNCHANGED <<sep, scores, args, tracks_json, midx, runs,
                   file0, writes, conv_vars, ext_vars>>

(* lines 75-79: one iteration of the loop over the globbed paths *)
DoNotesFile ==
    /\ pc = "notes_loop" /\ todo # {}
    /\ \E file \in todo :
          LET info == get_instrument_info(scores[file])
              name == instrument_name(GlobPath(sep, file))
          IN  IF info.ok
              THEN /\ out_json' = [out_json EXCEPT
                                      !.instruments = Put(@, name, info.val)]
                   /\ todo' = todo \ {file}
                   /\ UNCHANGED <<pc, error, last>>
              ELSE /\ Abort(info.err)
                   /\ UNCHANGED <<out_json, todo>>
    /\ UNCHANGED <<sep, scores, tracks_file, args, tracks_json, midx, runs,
                   file0, writes, conv_vars, ext_vars>>

(* line 82 *)
DoNotesWrite ==
    /\ pc = "notes_loop" /\ todo = {}
    /\ tracks_file' = [exists |-> TRUE, json |-> out_json]
    /\ writes' = writes + 1
    /\ pc' = "main_mappings"
    /\ last' = [last EXCEPT !.ended = "ok"]
    /\ UNCHANGED <<sep, scores, args, out_json, todo, tracks_json, midx, error, runs,
                   file0, conv_vars, ext_vars>>

(* line 165, flag not given *)
SkipMappings ==
    /\ pc = "main_mappings" /\ ~args.do_mappings
    /\ pc' = "done"
    /\ UNCHANGED <<sep, scores, tracks_file, args, out_json, todo, tracks_json, midx,
                   error, runs, file0, writes, last, conv_vars, ext_vars>>

(* lines 123-131 *)
DoMappingsBegin ==
    /\ pc = "main_mappings" /\ args.do_mappings
    /\ file0' = tracks_file
    /\ writes' = 0
    /\ IF ~tracks_file.exists
       THEN /\ pc' = "failed"
            /\ error' = "FileNotFoundError"
            /\ UNCHANGED tracks_json
       ELSE IF ~Has(tracks_file.json, "tracks_data")
                 \/ ~(TracksDataKeys \subseteq DOMAIN tracks_file.json.tracks_data)
       THEN /\ pc' = "failed"
            /\ error' = "KeyError"
            /\ tracks_json' = tracks_file.json
       ELSE /\ pc' = "map_loop"
            /\ tracks_json' = tracks_file.json
            /\ UNCHANGED error
    /\ last' = [last EXCEPT !.workflow = "do_mappings",
                            !.ended = IF pc' = "failed" THEN "failed" ELSE "running"]
    /\ midx' = 1
    /\ UNCHANGED <<sep, scores, tracks_file, args, out_json, todo, runs,
                   conv_vars, ext_vars>>

(* lines 133-148: one iteration of the loop over the mappings *)
DoMappingsStep ==
    /\ pc = "map_loop" /\ midx <= Len(tracks_json.tracks_data.mappings)
    /\ LET td == tracks_json.tracks_data
           r == normalize_mapping(td.bpm, td.ppq, td.time_signature, td.mappings[midx])
       IN  IF r.ok
           THEN /\ tracks_json' = [tracks_json EXCEPT
                                      !.tracks_data.mappings[midx] = r.val]
                /\ midx' = midx + 1
                /\ UNCHANGED <<pc, error, last>>
           ELSE /\ Abort(r.err)
                /\ UNCHANGED <<tracks_json, midx>>
    /\ UNCHANGED <<sep, scores, tracks_file, args, out_json, todo, runs,
                   file0, writes, conv_vars, ext_vars>>

(* line 150 *)
DoMappingsWrite ==
    /\ pc = "map_loop" /\ midx > Len(tracks_json.tracks_data.mappings)
    /\ tracks_file' = [exists |-> TRUE, json |-> tracks_json]
    /\ writes' = writes + 1
    /\ pc' = "done"
    /\ last' = [last EXCEPT !.ended = "ok", !.passes = @ + 1]
    /\ UNCHANGED <<sep, scores, args, out_json, todo, tracks_json, midx, error, runs,
                   file0, conv_vars, ext_vars>>

(* the program is run again on the same directory *)
Invoke ==
    /\ pc \in {"done", "failed"} /\ runs < MaxRuns
    /\ runs' = runs + 1
    /\ args' \in ArgSets
    /\ pc' = "main_notes"
    /\ out_json' = EmptyDict
    /\ todo' = {}
    /\ tracks_json' = EmptyDict
    /\ midx' = 1
    /\ error' = ""
    /\ file0' = tracks_file
    /\ writes' = 0
    /\ last' = [last EXCEPT !.workflow = "", !.ended = ""]
    /\ UNCHANGED <<sep, scores, tracks_file, conv_vars, ext_vars>>

Next ==
    \/ SkipNotes \/ DoNotesBegin \/ DoNotesFile \/ DoNotesWrite
    \/ SkipMappings \/ DoMappingsBegin \/ DoMappingsStep \/ DoMappingsWrite
    \/ Invoke

Spec == Init /\ [][Next]_vars

-----------------------------------------------------------------------------
(* the seconds of a position, by integer arithmetic on its fields *)
ConvExpected(in) ==
    Rat((((in.bar - 1) * in.num + (in.beat - 1)) * in.ppq + in.tick) * 60,
        in.ppq * in.bpm)

(* C4: for bpm > 0 and ppq > 0 a call of bbt_to_second on "bar:beat:tick"  *)
(* and "N:D" returns ((bar-1)*N + (beat-1) + tick/ppq) * 60/bpm, the same  *)
(* for every denominator D, and 0 for "1:01:00".                           *)
C4_Formula ==
    (conv_pc = "returned" /\ conv_in.bpm > 0 /\ conv_in.ppq > 0) =>
        /\ conv_out.ok
        /\ conv_out.val = ConvExpected(conv_in)
        /\ \A d \in Denominators :
              LET r == bbt_to_second(conv_in.bpm, conv_in.ppq, ConvBBT(conv_in),
                                     FormatTS(conv_in.num, d))
              IN  r.ok /\ r.val = conv_out.val
        /\ (ConvBBT(conv_in) = <<"1", ":", "0", "1", ":", "0", "0">>
                => conv_out.val = RatZero)

C4_Witness ==
    /\ conv_pc = "returned" /\ conv_in.bpm = 90 /\ conv_in.ppq = 24
    /\ conv_in.bar = 2 /\ conv_in.beat = 2 /\ conv_in.tick = 12
    /\ conv_in.num = 3 /\ conv_in.den = 8
    /\ conv_out.ok /\ conv_out.val = <<3, 1>>

(* C5: a call of bbt_to_second with ppq <= 0 or bpm <= 0 ends in an error  *)
(* and returns no number.                                                  *)
C5_Claim ==
    (conv_pc = "returned" /\ (conv_in.ppq <= 0 \/ conv_in.bpm <= 0)) => ~conv_out.ok

-----------------------------------------------------------------------------
(* C2: for one instrument with n >= 1 notes the extracted list has n       *)
(* entries in source order, entry i with index i, start relative to the    *)
(* first note of the source and duration end - start; the first start is   *)
(* 0 and nothing is re-sorted.                                             *)
C2_Formula ==
    (ext_pc = "returned" /\ Len(ext_in) = 1 /\ Len(ext_in[1].notes) >= 1) =>
        LET src == ext_in[1].notes
            out == ext_out.val.notes
        IN  /\ ext_out.ok
            /\ Len(out) = Len(src)
            /\ \A i \in 1..Len(src) :
                  /\ out[i].index = i - 1
                  /\ out[i].start = src[i].start - src[1].start
                  /\ out[i].duration = src[i].end - src[i].start
            /\ out[1].start = 0

C2_Witness ==
    /\ ext_pc = "returned" /\ ext_out.ok
    /\ Len(ext_out.val.notes) = 2
    /\ ext_out.val.notes[2].start < 0

(* C3: extraction fails with the instrument-count error when the source    *)
(* holds zero or several instruments, and with the empty-track error when  *)
(* its single instrument has no notes; a failing extraction returns no     *)
(* InstrumentInfo.                                                         *)
C3_Formula ==
    ext_pc = "returned" =>
        /\ Len(ext_in) # 1 => (~ext_out.ok /\ ext_out.err = CountMessage)
        /\ (Len(ext_in) = 1 /\ Len(ext_in[1].notes) = 0)
              => (~ext_out.ok /\ ext_out.err = NotesMessage)
        /\ ~ext_out.ok => ext_out.val = <<>>

C3_Witness ==
    /\ ext_pc = "returned" /\ Len(ext_in) = 2 /\ Len(ext_in[1].notes) = 2
    /\ ~ext_out.ok /\ ext_out.err = CountMessage

-----------------------------------------------------------------------------
NotesSucceeded ==
    pc = "main_mappings" /\ last.workflow = "do_notes" /\ last.ended = "ok"

MappingsSucceeded ==
    pc = "done" /\ last.workflow = "do_mappings" /\ last.ended = "ok"

(* the instrument names the run assigns to *)
WrittenNames == {instrument_name(GlobPath(sep, f)) : f \in DOMAIN scores}

InstrumentsOf(doc) == Get(doc, "instruments", EmptyDict)

(* C1: after a successful notes workflow every instrument entry of the     *)
(* starting document under a name that no source file of the batch is      *)
(* given (line 76) is still there with its old value, and every top-level  *)
(* key other than instruments is unchanged.                                *)
C1_Formula ==
    NotesSucceeded =>
        /\ \A a \in (DOMAIN InstrumentsOf(file0.json)) \ WrittenNames :
              /\ Has(tracks_file.json.instruments, a)
              /\ tracks_file.json.instruments[a] = file0.json.instruments[a]
        /\ DOMAIN tracks_file.json = (DOMAIN file0.json) \cup {"instruments"}
        /\ \A k \in (DOMAIN file0.json) \ {"instruments"} :
              tracks_file.json[k] = file0.json[k]

C1_Witness ==
    /\ NotesSucceeded
    /\ Has(file0.json, "tracks_data")
    /\ Has(file0.json, "instruments") /\ Has(file0.json.instruments, NameA)
    /\ NameA \in WrittenNames /\ FileB \in DOMAIN scores
    /\ tracks_file.json.instruments[NameA] # OldInfo
    /\ tracks_file.json.instruments[NameC] = OldInfo

(* C6: a workflow writes tracks.json at most once, and only when all its   *)
(* in-memory work is done; a workflow that fails leaves tracks.json as it  *)
(* was when the workflow started.                                          *)
C6_Formula ==
    /\ writes <= 1
    /\ pc \in {"notes_loop", "map_loop", "failed"} =>
          (writes = 0 /\ tracks_file = file0)

C6_Witness ==
    /\ pc = "failed" /\ last.workflow = "do_notes" /\ error = NotesMessage
    /\ DOMAIN out_json.instruments # DOMAIN InstrumentsOf(file0.json)
    /\ tracks_file = file0

(* C7: a notes workflow that starts from a document without an             *)
(* instruments key (no tracks.json, or one holding only other keys) does   *)
(* not fail when every source file extracts, and ends with every           *)
(* extracted instrument stored under its name.                             *)
C7_Claim ==
    (/\ last.workflow = "do_notes"
     /\ ~Has(file0.json, "instruments")
     /\ \A f \in DOMAIN scores : get_instrument_info(scores[f]).ok)
    => /\ pc # "failed"
       /\ last.ended = "ok" =>
             \A n \in WrittenNames : Has(tracks_file.json.instruments, n)

SecondsIn(td, bbt) == bbt_to_second(td.bpm, td.ppq, bbt, td.time_signature).val

(* C8: after a successful normalization pass every mapping in which        *)
(* loops_data is present has between = seconds(between_second_bbt) -       *)
(* seconds(between_first_bbt), absent fields taken as "1:01:00", and every *)
(* loop has start = seconds(start_bbt).                                    *)
C8_Claim ==
    MappingsSucceeded =>
        LET td == tracks_file.json.tracks_data
        IN  \A i \in 1..Len(td.mappings) :
              Has(td.mappings[i], "loops_data") =>
                LET ld == td.mappings[i].loops_data
                IN  /\ Has(ld, "between")
                    /\ ld.between =
                          RatSub(SecondsIn(td, Get(ld, "between_second_bbt", DefaultBBT)),
                                 SecondsIn(td, Get(ld, "between_first_bbt", DefaultBBT)))
                    /\ Has(ld, "loops")
                    /\ \A j \in 1..Len(ld.loops) :
                          /\ Has(ld.loops[j], "start")
                          /\ ld.loops[j].start = SecondsIn(td, ld.loops[j].start_bbt)

SameExcept(new, old, key) ==
    /\ (DOMAIN old) \subseteq (DOMAIN new)
    /\ (DOMAIN new) \subseteq (DOMAIN old) \cup {key}
    /\ \A k \in (DOMAIN old) \ {key} : new[k] = old[k]

LoopsDataFrame(new, old) ==
    /\ (DOMAIN old) \subseteq (DOMAIN new)
    /\ (DOMAIN new) \subseteq (DOMAIN old) \cup {"between"}
    /\ \A k \in (DOMAIN old) \ {"between", "loops"} : new[k] = old[k]
    /\ Has(old, "loops") =>
          /\ Len(new.loops) = Len(old.loops)
          /\ \A j \in 1..Len(old.loops) :
                /\ SameExcept(new.loops[j], old.loops[j], "start")
                /\ Has(new.loops[j], "start_bbt")

(* C9: a successful normalization pass changes nothing but between of each *)
(* loops_data and start of each loop: mappings without loops_data, every   *)
(* other field of a loop, the bbt fields (never added), instruments, bpm,  *)
(* ppq and time_signature are as before.                                   *)
C9_Formula ==
    MappingsSucceeded =>
        LET new == tracks_file.json
            old == file0.json
        IN  /\ DOMAIN new = DOMAIN old
            /\ \A k \in (DOMAIN old) \ {"tracks_data"} : new[k] = old[k]
            /\ DOMAIN new.tracks_data = DOMAIN old.tracks_data
            /\ \A k \in (DOMAIN old.tracks_data) \ {"mappings"} :
                  new.tracks_data[k] = old.tracks_data[k]
            /\ Len(new.tracks_data.mappings) = Len(old.tracks_data.mappings)
            /\ \A i \in 1..Len(old.tracks_data.mappings) :
                  LET m == new.tracks_data.mappings[i]
                      m0 == old.tracks_data.mappings[i]
                  IN  IF ~Has(m0, "loops_data") THEN m = m0
                      ELSE /\ DOMAIN m = DOMAIN m0
                           /\ \A k \in (DOMAIN m0) \ {"loops_data"} : m[k] = m0[k]
                           /\ LoopsDataFrame(m.loops_data, m0.loops_data)

C9_Witness ==
    /\ MappingsSucceeded
    /\ Has(file0.json, "instruments")
    /\ Len(file0.json.tracks_data.mappings) = 2
    /\ file0.json.tracks_data.mappings[1].name = "plain"
    /\ file0.json.tracks_data.mappings[2].name = "defaults"
    /\ tracks_file.json # file0.json
    /\ ~Has(tracks_file.json.tracks_data.mappings[2].loops_data, "between_first_bbt")

Without(d, k) == [x \in (DOMAIN d) \ {k} |-> d[x]]

ScrubMapping(m) ==
    IF ~Has(m, "loops_data") \/ ~Has(m.loops_data, "loops") THEN m
    ELSE [m EXCEPT !.loops_data =
            Put(Without(m.loops_data, "between"), "loops",
                [j \in 1..Len(m.loops_data.loops) |->
                    Without(m.loops_data.loops[j], "start")])]

Scrub(doc) ==
    [doc EXCEPT !.tracks_data.mappings =
        [i \in 1..Len(doc.tracks_data.mappings) |->
            ScrubMapping(doc.tracks_data.mappings[i])]]

Recomputed(doc) ==
    LET td == doc.tracks_data
    IN  [doc EXCEPT !.tracks_data.mappings =
            [i \in 1..Len(td.mappings) |->
                normalize_mapping(td.bpm, td.ppq, td.time_signature, td.mappings[i]).val]]

(* C10: a second normalization pass leaves the document of the first pass  *)
(* as it is, and a pass replaces every stored between and start by the     *)
(* value recomputed from the bbt fields, whatever was stored.              *)
C10_Formula ==
    MappingsSucceeded =>
        /\ tracks_file.json = Recomputed(Scrub(file0.json))
        /\ last.passes >= 2 => tracks_file = file0

C10_Witness ==
    /\ MappingsSucceeded /\ last.passes = 2
    /\ \E i \in 1..Len(tracks_file.json.tracks_data.mappings) :
          LET m == tracks_file.json.tracks_data.mappings[i]
          IN  /\ m.name = "between"
              /\ m.loops_data.between = <<-3, 4>>
              /\ m.loops_data.loops[1].start = <<3, 4>>

====
